---------------------------- MODULE Spec2Model ----------------------------
(***************************************************************************)
(* Model of openfl/transport/grpc/aggregator_client.py: the gRPC client a   *)
(* collaborator uses to talk to the aggregator.                             *)
(*                                                                         *)
(* The state is one AggregatorGRPCClient instance (`client`), the channel   *)
(* objects it has created (`channels`), and the position of the one thread  *)
(* that calls its public methods (`pc` and the locals of the decorators,    *)
(* the interceptor loop and the method body).  The transport is the         *)
(* environment: every invocation of the interceptor's continuation returns  *)
(* a status code chosen nondeterministically, and on OK a response header   *)
(* chosen nondeterministically.                                             *)
(* SpecConc lets two threads (`threads`) call the same client without a     *)
(* lock, one statement at a time.                                          *)
(***************************************************************************)
EXTENDS Integers, Sequences, FiniteSets, TLC

(* Bounds of the exploration. *)
MaxOps == 2        \* public method calls made on one client instance
MaxAttempts == 3   \* invocations of the continuation within one method call
MaxFrames == 2     \* frames of a SendLocalTaskResults stream
MaxCalls == 2      \* stub call attempts of one thread's method call

(***************************************************************************)
(* Values                                                                  *)
(***************************************************************************)
None == "None"
OK == "OK"
UNAVAILABLE == "UNAVAILABLE"
UNKNOWN == "UNKNOWN"
UNAUTHENTICATED == "UNAUTHENTICATED"
DEADLINE_EXCEEDED == "DEADLINE_EXCEEDED"
INTERNAL == "INTERNAL"

\* Status codes a live transport answers a call with.
FailureCodes == {UNAVAILABLE, UNKNOWN, UNAUTHENTICATED, DEADLINE_EXCEEDED}
Codes == {OK} \cup FailureCodes

Callers == {"col1", "col2"}
AggregatorUuid == "agg"
FederationUuid == "fed"
CommonNames == {None, "", "cn"}
\* Common names the clients of the method-call specification are built with.
ClientCommonNames == {None, "cn"}

WorkerOps == {"get_tasks", "get_aggregated_tensor", "send_local_task_results"}
TerminalOps == {"connectivity_check", "admin_add_collaborator",
                "admin_remove_collaborator", "admin_get_experiment_status",
                "admin_set_straggler_cutoff_time"}
Operations == WorkerOps \cup TerminalOps \cup {"_get_trained_model"}

\* The worker methods left without their _atomic_connection decorator.
HasAtomicConnection_TerminalOnly(o) == o \in TerminalOps
\* The decorators stacked on each method.
HasAtomicConnection(o) == o \in WorkerOps \cup TerminalOps
HasResendData(o) == o \in WorkerOps
\* connectivity_check left without its _handle_grpc_error decorator.
HasHandleGrpcError_AdminOnly(o) == o \in TerminalOps \ {"connectivity_check"}
HasHandleGrpcError(o) == o \in TerminalOps
\* Methods whose body calls _set_header and validate_response.
StampsHeader(o) == o \in WorkerOps \cup TerminalOps
\* The first attribute each method body looks up on self.stub.
StubAttribute(o) ==
  CASE o = "get_tasks" -> "GetTasks"
    [] o = "get_aggregated_tensor" -> "GetAggregatedTensor"
    [] o = "send_local_task_results" -> "SendLocalTaskResults"
    [] o = "_get_trained_model" -> "GetTrainedModelRequest"
    [] o = "connectivity_check" -> "ConnectivityCheck"
    [] o = "admin_add_collaborator" -> "AddCollaborator"
    [] o = "admin_remove_collaborator" -> "RemoveCollaborator"
    [] o = "admin_get_experiment_status" -> "GetExperimentStatus"
    [] o = "admin_set_straggler_cutoff_time" -> "SetStragglerCuttoffTime"
\* What aggregator_pb2_grpc.AggregatorStub offers: every operation of the
\* operation set, GetTrainedModel with the request it sends.
StubRpcs == {"GetTasks", "GetAggregatedTensor", "SendLocalTaskResults",
             "GetTrainedModelRequest", "GetTrainedModel",
             "ConnectivityCheck", "AddCollaborator",
             "RemoveCollaborator", "GetExperimentStatus",
             "SetStragglerCuttoffTime"}
\* Methods whose request is an iterator over a list of frames.
IsStream(o) == o = "send_local_task_results"

NoneHeader == [sender |-> None, receiver |-> None, federation_uuid |-> None,
               single_col_cert_common_name |-> None]
\* Response headers: every combination of right and wrong field values.
ReplyHeaders == [sender : {AggregatorUuid, "other"},
                 receiver : Callers \cup {"other"},
                 federation_uuid : {FederationUuid, "other"},
                 single_col_cert_common_name : {"", "cn", "other"}]
\* Fields in which header h differs from header g.
DiffFields(h, g) == {f \in DOMAIN g : h[f] # g[f]}

\* Python's `x or ""` on an optional string.
OrEmpty(x) == IF x = None \/ x = "" THEN "" ELSE x

VARIABLES
  client,     \* the fields of the AggregatorGRPCClient instance
  channels,   \* channel objects created so far: [closed, closes]
  warns,      \* "insecure channel" warnings logged
  pc,         \* where the calling thread is
  op,         \* the public method in progress (or last finished)
  caller,     \* its collaborator_name / admin_name argument
  nops,       \* public method calls made so far
  frames,     \* length of the frame list the method body builds
  iterPos,    \* frames already taken from the request iterator
  firstFrame, \* iterator position at which the last attempt started reading
  sent,       \* frames the last attempt took from the iterator
  attempts,   \* continuation invocations in this method call
  sleeps,     \* sleeping_policy.sleep() calls in this method call
  trace,      \* status codes the continuation returned in this method call
  iAttempts,  \* continuation invocations in the current stub call
  iSleeps,    \* sleep() calls in the current stub call
  iCodes,     \* status codes returned in the current stub call
  response,   \* what the stub call ended with (a status code)
  reply,      \* header of the response message
  mismatch,   \* validate_response: 0 passed, k = k-th check raised, -1 not run
  opChan,     \* channel opened by this method call's reconnect (0: none)
  callChan,   \* channel the last attempt went over
  callOpen,   \* whether that channel was open when the attempt was issued
  outcome,    \* how the method call ended
  error,      \* what it raised
  threads,    \* the threads that share the client, each with its position
  closedBy    \* for each channel object, the threads that called close() on it

clientVars == <<client, channels, warns>>
streamVars == <<frames, iterPos, firstFrame, sent>>
countVars == <<attempts, sleeps, trace>>
icallVars == <<iAttempts, iSleeps, iCodes>>
chanVars == <<opChan, callChan, callOpen>>
concVars == <<threads, closedBy>>
vars == <<client, channels, warns, pc, op, caller, nops, frames, iterPos,
          firstFrame, sent, attempts, sleeps, trace, iAttempts, iSleeps,
          iCodes, response, reply, mismatch, opChan, callChan, callOpen,
          outcome, error, threads, closedBy>>

(***************************************************************************)
(* RetryOnRpcErrorClientInterceptor                                        *)
(***************************************************************************)
\* status_for_retry is Optional[Tuple[StatusCode]]: None, or a tuple.
NoStatuses == [is_none |-> TRUE, codes |-> {}]
StatusTuple(S) == [is_none |-> FALSE, codes |-> S]
\* Truthiness tested as `is not None`: an empty tuple counts as a policy.
Truthy_NotNone(sfr) == ~sfr.is_none
\* Python truthiness of status_for_retry: None and () are falsy.
Truthy(sfr) == ~sfr.is_none /\ sfr.codes # {}

\* The loop with the membership test inverted: a status of the set is
\* returned, any other is slept on.
InterceptDecision_Inverted(sfr, code) ==
  IF code # OK
    THEN IF Truthy(sfr) /\ code \in sfr.codes THEN "return" ELSE "sleep"
    ELSE "return"

\* The loop with the status filter left out: every failure is slept on.
InterceptDecision_NoFilter(sfr, code) ==
  IF code # OK THEN "sleep" ELSE "return"

\* One iteration of the `while True` loop, after the continuation returned
\* `code`: "return" leaves the loop with the response, "sleep" calls
\* sleeping_policy.sleep() and loops.
InterceptDecision(sfr, code) ==
  IF code # OK
    THEN IF Truthy(sfr) /\ code \notin sfr.codes THEN "return" ELSE "sleep"
    ELSE "return"

\* What a stub call does with the continuation's result: an intercepted
\* channel runs the interceptor, a bare channel hands the result back.
CallDecision(interceptors, code) ==
  IF interceptors = <<>> THEN "return"
  ELSE InterceptDecision(interceptors[1], code)

(***************************************************************************)
(* AggregatorGRPCClient                                                    *)
(***************************************************************************)
\* A channel object as the client makes it for itself: open, stored in
\* self.channel.  `owner` tells who holds the reference.
NewChannel == [closed |-> FALSE, closes |-> 0, owner |-> "client"]
\* A channel object returned by a direct call of one of the two factories.
ReturnedChannel == [NewChannel EXCEPT !.owner = "caller"]

\* grpc.Channel.close() on channel object c.
Close(chs, c) == [chs EXCEPT ![c].closed = TRUE, ![c].closes = @ + 1]

\* AggregatorGRPCClient.disconnect: the channel objects afterwards.
disconnect(cl, chs) == Close(chs, cl.channel)

\* reconnect without its leading disconnect().
reconnect_channels_NoClose(cl, chs) == Append(chs, NewChannel)

\* AggregatorGRPCClient.reconnect: the channel objects afterwards.
reconnect_channels(cl, chs) == Append(disconnect(cl, chs), NewChannel)
\* reconnect that leaves self.channel as it was.
reconnect_client_KeepChannel(cl, chs) ==
  [cl EXCEPT !.stub = [channel |-> cl.channel, interceptors |-> cl.interceptors]]
\* reconnect that does not rebuild self.stub.
reconnect_client_NoStub(cl, chs) == [cl EXCEPT !.channel = Len(chs) + 1]

\* AggregatorGRPCClient.reconnect: the client afterwards.
reconnect_client(cl, chs) ==
  [cl EXCEPT !.channel = Len(chs) + 1,
             !.stub = [channel |-> Len(chs) + 1, interceptors |-> cl.interceptors]]

\* AggregatorGRPCClient._set_header
_set_header(cl, collaborator_name) ==
  [cl EXCEPT !.header =
     [sender |-> collaborator_name,
      receiver |-> cl.aggregator_uuid,
      federation_uuid |-> cl.federation_uuid,
      single_col_cert_common_name |-> OrEmpty(cl.single_col_cert_common_name)]]

\* openfl.utilities.check_equal: passes when equal, raises otherwise.
check_equal(x, y) == x = y

\* The first check of a list of <<actual, expected>> pairs that raises
\* (0 when none does); later pairs are not looked at.
RECURSIVE FirstRaise(_, _)
FirstRaise(checks, k) ==
  IF k > Len(checks) THEN 0
  ELSE IF ~check_equal(checks[k][1], checks[k][2]) THEN k
  ELSE FirstRaise(checks, k + 1)

\* validate_response with the sender checked before the receiver.
validate_response_SenderFirst(cl, rep, collaborator_name) ==
  LET k == FirstRaise(<< <<rep.sender, cl.aggregator_uuid>>,
                         <<rep.receiver, collaborator_name>>,
                         <<rep.federation_uuid, cl.federation_uuid>>,
                         <<rep.single_col_cert_common_name,
                           OrEmpty(cl.single_col_cert_common_name)>> >>, 1)
  IN IF k = 1 THEN 2 ELSE IF k = 2 THEN 1 ELSE k

\* AggregatorGRPCClient.validate_response: 0 when it returns, k when its
\* k-th check_equal raises.
validate_response(cl, rep, collaborator_name) ==
  FirstRaise(<< <<rep.receiver, collaborator_name>>,
                <<rep.sender, cl.aggregator_uuid>>,
                <<rep.federation_uuid, cl.federation_uuid>>,
                <<rep.single_col_cert_common_name,
                  OrEmpty(cl.single_col_cert_common_name)>> >>, 1)

\* AggregatorGRPCClient.__init__
NewClient(tls, cn, for_admin) ==
  LET interceptors == IF for_admin THEN <<>>
                      ELSE << StatusTuple({UNAVAILABLE}) >>
  IN [uri |-> "agg_addr:agg_port",
      tls |-> tls,
      channel |-> 1,
      header |-> NoneHeader,
      aggregator_uuid |-> AggregatorUuid,
      federation_uuid |-> FederationUuid,
      single_col_cert_common_name |-> cn,
      interceptors |-> interceptors,
      stub |-> [channel |-> 1, interceptors |-> interceptors]]

Threads == {"t1", "t2"}
\* The name each thread passes as collaborator_name: its own.
ThreadCaller == [t \in Threads |-> IF t = "t1" THEN "col1" ELSE "col2"]
\* A thread that has not called the client yet.
IdleThread == [pc |-> "idle", op |-> "none", caller |-> "none", attempts |-> 0,
               chanRead |-> 0, newStub |-> None, reqSender |-> None,
               stubChan |-> 0, callChan |-> 0, callOpen |-> FALSE]
InitThreads ==
  /\ threads = [t \in Threads |-> IdleThread]
  /\ closedBy = << {} >>

InitThread ==
  /\ pc = "idle" /\ op = "none" /\ caller = "none" /\ nops = 0
  /\ frames = 0 /\ iterPos = 0 /\ firstFrame = 0 /\ sent = 0
  /\ attempts = 0 /\ sleeps = 0 /\ trace = <<>>
  /\ iAttempts = 0 /\ iSleeps = 0 /\ iCodes = <<>>
  /\ response = "none" /\ reply = NoneHeader /\ mismatch = -1
  /\ opChan = 0 /\ callChan = 0 /\ callOpen = FALSE
  /\ outcome = "none" /\ error = "none"

Init ==
  /\ \E tls \in BOOLEAN, cn \in ClientCommonNames, for_admin \in BOOLEAN :
       /\ client = NewClient(tls, cn, for_admin)
       /\ warns = IF tls THEN 0 ELSE 1
  /\ channels = << NewChannel >>
  /\ InitThread
  /\ InitThreads

(***************************************************************************)
(* Public methods called directly                                          *)
(***************************************************************************)
\* A new public call starts: what the previous call left behind is gone.
ResetLocals ==
  /\ caller' = "none" /\ frames' = 0
  /\ iterPos' = 0 /\ firstFrame' = 0 /\ sent' = 0
  /\ attempts' = 0 /\ sleeps' = 0 /\ trace' = <<>>
  /\ iAttempts' = 0 /\ iSleeps' = 0 /\ iCodes' = <<>>
  /\ response' = "none" /\ reply' = NoneHeader /\ mismatch' = -1
  /\ opChan' = 0 /\ callChan' = 0 /\ callOpen' = FALSE
  /\ error' = "none"

\* client.reconnect()
Reconnect ==
  /\ pc = "idle" /\ nops < MaxOps
  /\ nops' = nops + 1
  /\ channels' = reconnect_channels(client, channels)
  /\ client' = reconnect_client(client, channels)
  /\ op' = "reconnect" /\ outcome' = "returned"
  /\ ResetLocals
  /\ UNCHANGED <<warns, pc, concVars>>

\* client.disconnect()
Disconnect ==
  /\ pc = "idle" /\ nops < MaxOps
  /\ nops' = nops + 1
  /\ channels' = disconnect(client, channels)
  /\ op' = "disconnect" /\ outcome' = "returned"
  /\ ResetLocals
  /\ UNCHANGED <<client, warns, pc, concVars>>

\* client.create_insecure_channel(uri), called directly: a new channel
\* object is returned to the caller; the client's fields stay as they are
\* and nothing is logged.
CreateInsecureChannel ==
  /\ pc = "idle" /\ nops < MaxOps
  /\ nops' = nops + 1
  /\ channels' = Append(channels, ReturnedChannel)
  /\ op' = "create_insecure_channel" /\ outcome' = "returned"
  /\ ResetLocals
  /\ UNCHANGED <<client, warns, pc, concVars>>

\* client.create_tls_channel(uri, root_certificate, ...), called directly
\* with readable certificate files: likewise.
CreateTlsChannel ==
  /\ pc = "idle" /\ nops < MaxOps
  /\ nops' = nops + 1
  /\ channels' = Append(channels, ReturnedChannel)
  /\ op' = "create_tls_channel" /\ outcome' = "returned"
  /\ ResetLocals
  /\ UNCHANGED <<client, warns, pc, concVars>>

(***************************************************************************)
(* A decorated method call, step by step                                   *)
(***************************************************************************)
\* The caller invokes method o: the outermost wrappers run up to the method
\* body.  _atomic_connection reconnects first; _get_trained_model has no
\* wrapper.
Invoke ==
  /\ pc = "idle" /\ nops < MaxOps
  /\ \E o \in Operations, c \in Callers :
     \E n \in (IF IsStream(o) THEN 1..MaxFrames ELSE {0}) :
       /\ op' = o /\ caller' = c
       /\ frames' = n
       /\ IF HasAtomicConnection(o)
            THEN /\ channels' = reconnect_channels(client, channels)
                 /\ client' = reconnect_client(client, channels)
                 /\ opChan' = Len(channels) + 1
            ELSE /\ UNCHANGED <<client, channels>>
                 /\ opChan' = 0
  /\ nops' = nops + 1
  /\ pc' = "body"
  /\ iterPos' = 0 /\ firstFrame' = 0 /\ sent' = 0
  /\ attempts' = 0 /\ sleeps' = 0 /\ trace' = <<>>
  /\ iAttempts' = 0 /\ iSleeps' = 0 /\ iCodes' = <<>>
  /\ response' = "none" /\ reply' = NoneHeader /\ mismatch' = -1
  /\ callChan' = 0 /\ callOpen' = FALSE
  /\ outcome' = "none" /\ error' = "none"
  /\ UNCHANGED <<warns, concVars>>

\* The method body up to the stub call: stamp the header, build the request
\* (for a stream: a fresh iterator over the frame list), enter the stub.
\* Looking up an attribute the stub does not have raises AttributeError,
\* which no decorator catches.
Body ==
  /\ pc = "body"
  /\ client' = IF StampsHeader(op) THEN _set_header(client, caller) ELSE client
  /\ iterPos' = 0
  /\ iAttempts' = 0 /\ iSleeps' = 0 /\ iCodes' = <<>>
  /\ IF StubAttribute(op) \in StubRpcs
       THEN pc' = "call" /\ UNCHANGED <<outcome, error>>
       ELSE pc' = "idle" /\ outcome' = "raised" /\ error' = "AttributeError"
  /\ UNCHANGED <<channels, warns, op, caller, nops, frames, firstFrame, sent,
                 countVars, response, reply, mismatch, chanVars, concVars>>

\* The header the aggregator answers this client's caller with when all is
\* well, and the headers the transport delivers: that one, or one that
\* differs from it in a single field.
GoodReply(cl, name) ==
  [sender |-> AggregatorUuid, receiver |-> name,
   federation_uuid |-> FederationUuid,
   single_col_cert_common_name |-> OrEmpty(cl.single_col_cert_common_name)]
TransportReplies(cl, name) ==
  {h \in ReplyHeaders : Cardinality(DiffFields(h, GoodReply(cl, name))) <= 1
                         /\ h.receiver \in Callers
                         /\ h.single_col_cert_common_name # "other"}

\* One invocation of the continuation with the request (or the request
\* iterator).  The transport answers with a status code; a failed attempt of
\* a stream call has taken any number of the frames left in the iterator, a
\* successful one all of them.  A closed channel refuses the call.
Continuation ==
  /\ pc = "call" /\ attempts < MaxAttempts
  /\ LET ch == client.stub.channel
         open == ~channels[ch].closed
         left == frames - iterPos
     IN \E code \in (IF open THEN Codes ELSE {INTERNAL}) :
        \E rep \in (IF code = OK /\ StampsHeader(op)
                      THEN TransportReplies(client, caller) ELSE {NoneHeader}) :
        \E k \in (IF code = OK THEN {left} ELSE 0..left) :
          /\ callChan' = ch /\ callOpen' = open
          /\ firstFrame' = iterPos /\ sent' = k /\ iterPos' = iterPos + k
          /\ attempts' = attempts + 1 /\ iAttempts' = iAttempts + 1
          /\ trace' = Append(trace, code) /\ iCodes' = Append(iCodes, code)
          /\ response' = code /\ reply' = rep
          /\ pc' = IF CallDecision(client.stub.interceptors, code) = "sleep"
                     THEN "sleep" ELSE "stub_return"
  /\ UNCHANGED <<clientVars, op, caller, nops, frames, sleeps, iSleeps,
                 mismatch, opChan, outcome, error, concVars>>

\* ConstantBackoff.sleep, then the loop calls the continuation again.
Sleep ==
  /\ pc = "sleep"
  /\ sleeps' = sleeps + 1 /\ iSleeps' = iSleeps + 1
  /\ pc' = "call"
  /\ UNCHANGED <<clientVars, op, caller, nops, streamVars, attempts, trace,
                 iAttempts, iCodes, response, reply, mismatch, chanVars,
                 outcome, error, concVars>>

\* The except clause re-raising UNKNOWN like UNAUTHENTICATED.
ResendOnRpcError_RaiseUnknown(code) ==
  IF code \in {UNKNOWN, UNAUTHENTICATED} THEN "raise" ELSE "continue"

\* The except clause with the UNAUTHENTICATED branch left out.
ResendOnRpcError_RetryAll(code) == "continue"

\* _resend_data_on_reconnection, `except grpc.RpcError as e`: what the loop
\* does with a failure of status `code`.
ResendOnRpcError(code) ==
  IF code = UNKNOWN THEN "continue"
  ELSE IF code = UNAUTHENTICATED THEN "raise"
  ELSE "continue"

\* The decorators with _resend_data_on_reconnection catching every exception.
Handling_CatchAll(o, isRpcError, code) ==
  IF HasResendData(o)
    THEN (IF isRpcError THEN ResendOnRpcError(code) ELSE "continue")
    ELSE IF isRpcError /\ HasHandleGrpcError(o) THEN "exit" ELSE "raise"

\* What the decorators of method o do with an exception leaving the body:
\* a grpc.RpcError of status `code`, or (isRpcError false) any other
\* exception.  _atomic_connection catches nothing.
Handling(o, isRpcError, code) ==
  IF ~isRpcError THEN "raise"
  ELSE IF HasResendData(o) THEN ResendOnRpcError(code)
  ELSE IF HasHandleGrpcError(o) THEN "exit"
  ELSE "raise"

\* The stub call is over: it raises the failure or returns the response, the
\* body validates the header, and the wrappers act on the result.  Only a
\* normal return gets to _atomic_connection's disconnect().
StubReturn ==
  /\ pc = "stub_return" /\ op \in Operations
  /\ LET validates == response = OK /\ StampsHeader(op)
         m == IF validates THEN validate_response(client, reply, caller) ELSE 0
         raised == response # OK \/ m # 0
         exc == IF response = INTERNAL THEN "ValueError"
                ELSE IF response # OK THEN response
                ELSE "HeaderMismatch"
         h == Handling(op, response \in FailureCodes, response)
     IN /\ mismatch' = IF validates THEN m ELSE mismatch
        /\ IF ~raised
             THEN /\ channels' = IF HasAtomicConnection(op)
                                   THEN disconnect(client, channels)
                                   ELSE channels
                  /\ pc' = "idle" /\ outcome' = "returned" /\ error' = "none"
             ELSE /\ UNCHANGED channels
                  /\ pc' = CASE h = "continue" -> "body"
                              [] h = "exit" -> "exited"
                              [] OTHER -> "idle"
                  /\ outcome' = CASE h = "continue" -> outcome
                                   [] h = "exit" -> "exit"
                                   [] OTHER -> "raised"
                  /\ error' = IF h = "continue" THEN error ELSE exc
  /\ UNCHANGED <<client, warns, op, caller, nops, streamVars, countVars,
                 icallVars, response, reply, chanVars, concVars>>

Next == Reconnect \/ Disconnect \/ CreateInsecureChannel \/ CreateTlsChannel
        \/ Invoke \/ Body \/ Continuation \/ Sleep \/ StubReturn

Spec == Init /\ [][Next]_vars

(***************************************************************************)
(* The interceptor on its own: one _intercept_call with any retry policy   *)
(***************************************************************************)
StatusPolicies == {NoStatuses} \cup {StatusTuple(S) : S \in SUBSET FailureCodes}

InitRetry ==
  /\ \E sfr \in StatusPolicies :
       client = [NewClient(TRUE, None, FALSE) EXCEPT
                   !.interceptors = << sfr >>,
                   !.stub = [channel |-> 1, interceptors |-> << sfr >>]]
  /\ warns = 0
  /\ channels = << NewChannel >>
  /\ pc = "call" /\ op = "_intercept_call" /\ caller = "none" /\ nops = 0
  /\ frames \in 0..MaxFrames
  /\ iterPos = 0 /\ firstFrame = 0 /\ sent = 0
  /\ attempts = 0 /\ sleeps = 0 /\ trace = <<>>
  /\ iAttempts = 0 /\ iSleeps = 0 /\ iCodes = <<>>
  /\ response = "none" /\ reply = NoneHeader /\ mismatch = -1
  /\ opChan = 0 /\ callChan = 0 /\ callOpen = FALSE
  /\ outcome = "none" /\ error = "none"
  /\ InitThreads

NextRetry == Continuation \/ Sleep

SpecRetry == InitRetry /\ [][NextRetry]_vars

(***************************************************************************)
(* validate_response on its own: any configured common name, any caller,   *)
(* any response header                                                     *)
(***************************************************************************)
InitValidate ==
  /\ \E cn \in CommonNames : client = NewClient(TRUE, cn, FALSE)
  /\ warns = 0
  /\ channels = << NewChannel >>
  /\ pc = "validate" /\ op = "validate_response" /\ caller \in Callers
  /\ nops = 0
  /\ frames = 0 /\ iterPos = 0 /\ firstFrame = 0 /\ sent = 0
  /\ attempts = 0 /\ sleeps = 0 /\ trace = <<>>
  /\ iAttempts = 0 /\ iSleeps = 0 /\ iCodes = <<>>
  /\ response = OK /\ reply \in ReplyHeaders /\ mismatch = -1
  /\ opChan = 0 /\ callChan = 0 /\ callOpen = FALSE
  /\ outcome = "none" /\ error = "none"
  /\ InitThreads

\* client.validate_response(reply, caller)
Validate ==
  /\ pc = "validate"
  /\ mismatch' = validate_response(client, reply, caller)
  /\ pc' = "validated"
  /\ outcome' = IF mismatch' = 0 THEN "returned" ELSE "raised"
  /\ error' = IF mismatch' = 0 THEN "none" ELSE "HeaderMismatch"
  /\ UNCHANGED <<clientVars, op, caller, nops, streamVars, countVars,
                 icallVars, response, reply, chanVars, concVars>>

NextValidate == Validate

SpecValidate == InitValidate /\ [][NextValidate]_vars

(***************************************************************************)
(* Method calls against a transport that settles: after MaxAttempts        *)
(* answers within one method call it returns no retryable failure any      *)
(* more, only a success with the right header or a status that is neither  *)
(* UNAVAILABLE nor UNKNOWN.  The counters stay at their bound from then on. *)
(***************************************************************************)
SettledCodes == Codes \ {UNAVAILABLE, UNKNOWN}

ContinuationSettled ==
  /\ pc = "call" /\ attempts >= MaxAttempts
  /\ LET ch == client.stub.channel
         open == ~channels[ch].closed
         left == frames - iterPos
     IN \E code \in (IF open THEN SettledCodes ELSE {INTERNAL}) :
        \E k \in (IF code = OK THEN {left} ELSE 0..left) :
          /\ callChan' = ch /\ callOpen' = open
          /\ firstFrame' = iterPos /\ sent' = k /\ iterPos' = iterPos + k
          /\ response' = code
          /\ reply' = IF code = OK /\ StampsHeader(op)
                        THEN GoodReply(client, caller) ELSE NoneHeader
          /\ pc' = IF CallDecision(client.stub.interceptors, code) = "sleep"
                     THEN "sleep" ELSE "stub_return"
  /\ UNCHANGED <<clientVars, op, caller, nops, frames, countVars, icallVars,
                 mismatch, opChan, outcome, error, concVars>>

NextLive == Reconnect \/ Disconnect \/ CreateInsecureChannel
            \/ CreateTlsChannel \/ Invoke \/ Body \/ Continuation
            \/ ContinuationSettled \/ Sleep \/ StubReturn

\* The calling thread keeps running and the transport answers every call;
\* the caller need not start another method call.
FairLive ==
  /\ WF_vars(Body) /\ WF_vars(Sleep) /\ WF_vars(StubReturn)
  /\ WF_vars(Continuation \/ ContinuationSettled)

SpecLive == Init /\ [][NextLive]_vars /\ FairLive

(***************************************************************************)
(* Two threads calling lifecycle-wrapped methods on one client, with no    *)
(* lock: each statement of _atomic_connection, reconnect and the method    *)
(* body is a step of its own, and the steps of the threads interleave.     *)
(***************************************************************************)
\* The calling thread's variables of the sequential specifications.
callerVars == <<pc, op, caller, streamVars, countVars, icallVars, response,
                reply, mismatch, chanVars, outcome, error>>

\* One method of each decorator stack that has _atomic_connection in it:
\* with _resend_data_on_reconnection, and with _handle_grpc_error.
ConcOps == {"get_tasks", "connectivity_check"}

\* reconnect building no stub: self.stub stays what it was.
NewStub_Stale(cl) == cl.stub
\* reconnect, last statement, right-hand side: a stub over the channel
\* self.channel names when it is read.
NewStub(cl) == [channel |-> cl.channel, interceptors |-> cl.interceptors]

\* A client over TLS, built for a collaborator or for an admin, that no
\* thread has called yet.
InitConc ==
  /\ \E for_admin \in BOOLEAN : client = NewClient(TRUE, None, for_admin)
  /\ warns = 0
  /\ channels = << NewChannel >>
  /\ InitThread
  /\ InitThreads

\* Thread record th at position p: when the method call is over (it
\* returned, raised, or ended the thread) its arguments and locals are gone;
\* what is kept is which method it was and how its last call was issued.
At(th, p) ==
  IF p \in {"idle", "exited"}
    THEN [th EXCEPT !.pc = p, !.caller = "none", !.attempts = 0,
                    !.reqSender = None, !.stubChan = 0, !.chanRead = 0]
    ELSE [th EXCEPT !.pc = p]

\* Thread t calls a method wrapped in _atomic_connection: the wrapper is
\* entered and about to call self.reconnect().
AtomicInvoke(t) ==
  /\ threads[t].pc = "idle" /\ nops < MaxOps
  /\ \E o \in ConcOps :
       threads' = [threads EXCEPT ![t] =
                     [IdleThread EXCEPT !.pc = "r_close", !.op = o,
                                        !.caller = ThreadCaller[t]]]
  /\ nops' = nops + 1
  /\ UNCHANGED <<clientVars, callerVars, closedBy>>

\* reconnect, first statement, self.disconnect(): self.channel is read.
ReconnectCloseRead(t) ==
  /\ threads[t].pc = "r_close"
  /\ threads' = [threads EXCEPT ![t].pc = "r_closing",
                                ![t].chanRead = client.channel]
  /\ UNCHANGED <<clientVars, nops, callerVars, closedBy>>

\* reconnect, first statement: close() on the channel object that was read,
\* whether or not it is still self.channel.
ReconnectClose(t) ==
  /\ threads[t].pc = "r_closing"
  /\ channels' = Close(channels, threads[t].chanRead)
  /\ closedBy' = [closedBy EXCEPT ![threads[t].chanRead] = @ \cup {t}]
  /\ threads' = [threads EXCEPT ![t].pc = "r_channel", ![t].chanRead = 0]
  /\ UNCHANGED <<client, warns, nops, callerVars>>

\* reconnect: self.channel = a newly created channel.
ReconnectChannel(t) ==
  /\ threads[t].pc = "r_channel"
  /\ channels' = Append(channels, NewChannel)
  /\ closedBy' = Append(closedBy, {})
  /\ client' = [client EXCEPT !.channel = Len(channels) + 1]
  /\ threads' = [threads EXCEPT ![t].pc = "r_stub"]
  /\ UNCHANGED <<warns, nops, callerVars>>

\* reconnect, last statement, right-hand side: self.channel is read and a
\* stub is built over it; the stub is not stored yet.
ReconnectStubBuild(t) ==
  /\ threads[t].pc = "r_stub"
  /\ threads' = [threads EXCEPT ![t].pc = "r_stub_store",
                                ![t].newStub = NewStub(client)]
  /\ UNCHANGED <<clientVars, nops, callerVars, closedBy>>

\* reconnect, last statement, the assignment: self.stub = the stub built.
ReconnectStubStore(t) ==
  /\ threads[t].pc = "r_stub_store"
  /\ client' = [client EXCEPT !.stub = threads[t].newStub]
  /\ threads' = [threads EXCEPT ![t].pc = "set_header", ![t].newStub = None]
  /\ UNCHANGED <<channels, warns, nops, callerVars, closedBy>>

\* The method body: self._set_header(name).
SetHeader(t) ==
  /\ threads[t].pc = "set_header"
  /\ client' = _set_header(client, threads[t].caller)
  /\ threads' = [threads EXCEPT ![t].pc = "request"]
  /\ UNCHANGED <<channels, warns, nops, callerVars, closedBy>>

\* The method body: the request is built around self.header as it is now.
BuildRequest(t) ==
  /\ threads[t].pc = "request"
  /\ threads' = [threads EXCEPT ![t].pc = "call",
                                ![t].reqSender = client.header.sender]
  /\ UNCHANGED <<clientVars, nops, callerVars, closedBy>>

\* The method body, self.stub.<rpc>(request): self.stub is evaluated; the
\* call has not reached the channel yet.
StubRead(t) ==
  /\ threads[t].pc = "call"
  /\ threads' = [threads EXCEPT ![t].pc = "issue",
                                ![t].stubChan = client.stub.channel]
  /\ UNCHANGED <<clientVars, nops, callerVars, closedBy>>

\* The call reaches the channel of the stub that was evaluated, the first
\* time or, after the interceptor slept, once more.  A closed channel
\* refuses the call with a ValueError, which no decorator catches; otherwise
\* the thread waits for the answer.
StubIssue(t) ==
  LET th == threads[t]
      ch == th.stubChan
      open == ~channels[ch].closed
  IN /\ th.pc \in {"issue", "sleep"} /\ th.attempts < MaxCalls
     /\ threads' = [threads EXCEPT ![t] =
          At([th EXCEPT !.attempts = @ + 1,
                        !.callChan = ch,
                        !.callOpen = open],
             IF open THEN "in_flight" ELSE "idle")]
     /\ UNCHANGED <<clientVars, nops, callerVars, closedBy>>

\* The transport answers the call in flight; the interceptor sleeps or
\* returns, the body validates the response and the wrappers act on the
\* result as in StubReturn.
StubAnswer(t) ==
  LET th == threads[t]
  IN /\ th.pc = "in_flight"
     /\ \E code \in Codes :
        \E rep \in (IF code = OK THEN TransportReplies(client, th.caller)
                                 ELSE {NoneHeader}) :
          LET m == IF code = OK
                     THEN validate_response(client, rep, th.caller) ELSE 0
              raised == code # OK \/ m # 0
              h == Handling(th.op, code \in FailureCodes, code)
              sleep == CallDecision(client.stub.interceptors, code) = "sleep"
          IN threads' = [threads EXCEPT ![t] = At(th,
                          IF sleep THEN "sleep"
                          ELSE IF ~raised THEN "d_close"
                          ELSE CASE h = "continue" -> "set_header"
                                 [] h = "exit" -> "exited"
                                 [] OTHER -> "idle")]
     /\ UNCHANGED <<clientVars, nops, callerVars, closedBy>>

\* _atomic_connection after the method returned, self.disconnect():
\* self.channel is read.
AtomicDisconnectRead(t) ==
  /\ threads[t].pc = "d_close"
  /\ threads' = [threads EXCEPT ![t].pc = "d_closing",
                                ![t].chanRead = client.channel]
  /\ UNCHANGED <<clientVars, nops, callerVars, closedBy>>

\* _atomic_connection's disconnect(): close() on the channel object read.
AtomicDisconnect(t) ==
  /\ threads[t].pc = "d_closing"
  /\ channels' = Close(channels, threads[t].chanRead)
  /\ closedBy' = [closedBy EXCEPT ![threads[t].chanRead] = @ \cup {t}]
  /\ threads' = [threads EXCEPT ![t] = At(threads[t], "idle")]
  /\ UNCHANGED <<client, warns, nops, callerVars>>

\* One statement of thread t.
ThreadStep(t) ==
  \/ AtomicInvoke(t) \/ ReconnectCloseRead(t) \/ ReconnectClose(t)
  \/ ReconnectChannel(t) \/ ReconnectStubBuild(t) \/ ReconnectStubStore(t)
  \/ SetHeader(t) \/ BuildRequest(t) \/ StubRead(t) \/ StubIssue(t)
  \/ StubAnswer(t) \/ AtomicDisconnectRead(t) \/ AtomicDisconnect(t)

NextConc == \E t \in Threads : ThreadStep(t)

SpecConc == InitConc /\ [][NextConc]_vars

(***************************************************************************)
(* One schedule of the two threads, out of those SpecConc allows: t1 runs  *)
(* its method call up to the point where it has evaluated self.stub; t2    *)
(* then runs until the channel of that stub is closed; then t1's call       *)
(* reaches the channel.  After that the threads run freely.  Every step is *)
(* a step of NextConc, so every behaviour here is a behaviour of SpecConc. *)
(***************************************************************************)
RaceOver == threads["t1"].callChan # 0 \/ threads["t1"].pc = "exited"
Turn ==
  IF threads["t1"].pc # "issue" THEN "t1"
  ELSE IF channels[threads["t1"].stubChan].closed THEN "t1"
  ELSE "t2"

\* Whether thread t may take the next step.
Scheduled(t) == RaceOver \/ t = Turn

NextRace ==
  \E t \in Threads :
    \/ Scheduled(t) /\ AtomicInvoke(t)
    \/ Scheduled(t) /\ ReconnectCloseRead(t)
    \/ Scheduled(t) /\ ReconnectClose(t)
    \/ Scheduled(t) /\ ReconnectChannel(t)
    \/ Scheduled(t) /\ ReconnectStubBuild(t)
    \/ Scheduled(t) /\ ReconnectStubStore(t)
    \/ Scheduled(t) /\ SetHeader(t)
    \/ Scheduled(t) /\ BuildRequest(t)
    \/ Scheduled(t) /\ StubRead(t)
    \/ Scheduled(t) /\ StubIssue(t)
    \/ Scheduled(t) /\ StubAnswer(t)
    \/ Scheduled(t) /\ AtomicDisconnectRead(t)
    \/ Scheduled(t) /\ AtomicDisconnect(t)

\* Both threads keep running: a statement that can be executed is executed.
FairRace == WF_vars(NextRace)

SpecRace == InitConc /\ [][NextRace]_vars /\ FairRace

(***************************************************************************)
(* Properties                                                              *)
(***************************************************************************)
Count(seq, S) == Cardinality({i \in 1..Len(seq) : seq[i] \in S})
Min(S) == CHOOSE x \in S : \A y \in S : x <= y
Interceptor == client.stub.interceptors[1]
NoInterceptor == client.stub.interceptors = <<>>
DefaultRetry == client.stub.interceptors = << StatusTuple({UNAVAILABLE}) >>
Ended == pc \in {"idle", "exited"} /\ outcome \in {"returned", "raised", "exit"}

\* C1: with a non-empty retryable set, N retryable failures followed by a
\* success make the interceptor sleep exactly N times, call the continuation
\* exactly N+1 times and return the success; a first failure outside the
\* set is returned after one call and no sleep.
C1_RetryCounts ==
  (op = "_intercept_call" /\ Truthy(Interceptor)) =>
    /\ (pc = "stub_return" /\ response = OK) =>
         LET N == Count(iCodes, Interceptor.codes)
         IN /\ iCodes[Len(iCodes)] = OK
            /\ Len(iCodes) = N + 1
            /\ iSleeps = N
            /\ iAttempts = N + 1
    /\ (Len(iCodes) >= 1 /\ iCodes[1] \notin Interceptor.codes \cup {OK}) =>
         /\ pc = "stub_return"
         /\ response = iCodes[1]
         /\ iSleeps = 0
         /\ iAttempts = 1
C1_Witness ==
  /\ op = "_intercept_call" /\ Truthy(Interceptor)
  /\ pc = "stub_return" /\ response = OK /\ iSleeps = 2

\* C2: a lifecycle-wrapped method has closed its channel when it has ended,
\* whether it returned or failed.
C2_ClosedOnExit ==
  (Ended /\ HasAtomicConnection(op)) => channels[client.channel].closed

\* C3: in a worker method on a client with the default retryable set, a
\* failure whose status is neither UNAVAILABLE nor UNKNOWN is the last call
\* attempt of the method and is raised to the caller.
C3_OtherCodesPropagate ==
  (op \in WorkerOps /\ DefaultRetry) =>
    \A i \in 1..Len(trace) :
      trace[i] \in FailureCodes \ {UNAVAILABLE, UNKNOWN} =>
        /\ i = Len(trace)
        /\ pc \in {"stub_return", "idle"}
        /\ pc = "idle" => (outcome = "raised" /\ error = trace[i])

\* C4: in a worker method with retryable set {UNAVAILABLE}, an
\* UNAUTHENTICATED failure, wherever it comes in the attempt sequence, is
\* the last call attempt, is followed by no backoff wait (the waits made are
\* those after the UNAVAILABLE failures before it) and is raised.
C4_UnauthenticatedRaised ==
  (op \in WorkerOps /\ DefaultRetry) =>
    \A i \in 1..Len(trace) :
      trace[i] = UNAUTHENTICATED =>
        /\ i = Len(trace)
        /\ attempts = i
        /\ sleeps = Count(trace, {UNAVAILABLE})
        /\ pc \in {"stub_return", "idle"}
        /\ pc = "idle" => (outcome = "raised" /\ error = UNAUTHENTICATED)
C4_Witness ==
  /\ op = "get_aggregated_tensor" /\ DefaultRetry
  /\ trace = <<UNAVAILABLE, UNKNOWN, UNAUTHENTICATED>>
  /\ pc = "idle" /\ outcome = "raised" /\ error = UNAUTHENTICATED

\* C5 as stated: in connectivity_check and the admin methods, on any
\* client, a first failure of any status ends the process after one call
\* attempt and no backoff wait.
C5_AnyClientTerminal ==
  (op \in TerminalOps /\ Len(trace) >= 1 /\ trace[1] \in FailureCodes) =>
    /\ attempts = 1 /\ sleeps = 0
    /\ pc \in {"stub_return", "exited"}

\* C5 amended: in connectivity_check and the admin methods, a failure ends
\* the process with no further call attempt and no backoff wait after it
\* if the client was built with for_admin (no interceptor: one attempt, no
\* wait at all) or the status is not UNAVAILABLE; on a client built without
\* for_admin only UNAVAILABLE failures are waited on and retried.
C5_TerminalFailure ==
  op \in TerminalOps =>
    /\ \A i \in 1..Len(trace) :
         (trace[i] \in FailureCodes /\ (NoInterceptor \/ trace[i] # UNAVAILABLE)) =>
           /\ i = Len(trace)
           /\ attempts = i
           /\ pc \in {"stub_return", "exited"}
           /\ pc = "exited" => (outcome = "exit" /\ error = trace[i])
    /\ NoInterceptor => (sleeps = 0 /\ attempts <= 1)
    /\ ~NoInterceptor =>
         sleeps \in {Count(trace, {UNAVAILABLE}),
                     Count(trace, {UNAVAILABLE}) - 1}
C5_Witness ==
  /\ op = "connectivity_check" /\ NoInterceptor
  /\ trace = <<UNAVAILABLE>> /\ pc = "exited" /\ sleeps = 0

\* C6 as stated: close is invoked at most once on every channel object, and
\* exactly once on every channel that has been replaced.
C6_ClosedExactlyOnce ==
  \A c \in 1..Len(channels) :
    /\ channels[c].closes <= 1
    /\ c # client.channel => channels[c].closes = 1

\* C6 amended: every channel the client held in self.channel and replaced
\* was closed before it was replaced, so of the channels it held at most
\* the current one is open; close may be invoked again on a channel that is
\* already closed, and a channel handed out by a direct call of a factory
\* is never closed by the client.
C6_ReplacedAreClosed ==
  \A c \in 1..Len(channels) :
    /\ channels[c].closed <=> channels[c].closes >= 1
    /\ (c # client.channel /\ channels[c].owner = "client") => channels[c].closed
    /\ channels[c].owner = "caller" => ~channels[c].closed
C6_Witness ==
  \E c \in 1..Len(channels) :
    /\ c # client.channel /\ channels[c].closes = 2
    /\ channels[Len(channels)].owner = "client"

\* C7: every call of every method, _get_trained_model included, goes over
\* a channel that the same method call opened on entry and that is open.
C7_FreshChannel ==
  (op \in Operations /\ attempts >= 1) => (callChan = opChan /\ callOpen)

\* C8: every attempt of send_local_task_results starts from the first
\* frame, and the attempt that succeeds transmits all the frames.
C8_CompleteStream ==
  (op = "send_local_task_results" /\ attempts >= 1) =>
    /\ firstFrame = 0
    /\ response = OK => sent = frames

\* C9: validate_response passes exactly when receiver, sender, federation
\* uuid and common name all have the expected values (the common name
\* expected is "" when none is configured), and otherwise raises at the
\* first check, in that order, whose field differs.
C9_ValidateResponse ==
  pc = "validated" =>
    LET cn == client.single_col_cert_common_name
        expected == <<caller, client.aggregator_uuid, client.federation_uuid,
                      IF cn = None THEN "" ELSE cn>>
        actual == <<reply.receiver, reply.sender, reply.federation_uuid,
                    reply.single_col_cert_common_name>>
        bad == {k \in 1..4 : actual[k] # expected[k]}
    IN /\ mismatch = 0 <=> bad = {}
       /\ bad # {} => mismatch = Min(bad)
       /\ outcome = IF bad = {} THEN "returned" ELSE "raised"
C9_Witness ==
  /\ pc = "validated" /\ mismatch = 2
  /\ reply.receiver = caller /\ reply.sender # client.aggregator_uuid
  /\ reply.federation_uuid # client.federation_uuid

\* C10: in a worker method, a response that fails header validation ends
\* the method call: the failure is raised, the validated response is the
\* last call attempt, and no backoff wait follows it.
C10_HeaderMismatchRaised ==
  (op \in WorkerOps /\ mismatch > 0) =>
    /\ pc = "idle" /\ outcome = "raised" /\ error = "HeaderMismatch"
    /\ trace[Len(trace)] = OK
    /\ attempts = Len(trace)
    /\ sleeps = IF NoInterceptor THEN 0 ELSE Count(trace, {UNAVAILABLE})
C10_Witness ==
  /\ op = "get_tasks" /\ mismatch > 0 /\ Len(trace) = 3
  /\ pc = "idle" /\ outcome = "raised"

\* C11: on a client with the retry interceptor, no method call ends with
\* an UNAVAILABLE failure, every UNAVAILABLE failure is followed by a
\* backoff wait and another attempt, and exactly one wait is made per
\* UNAVAILABLE failure.
C11_UnavailableAbsorbed ==
  (op \in Operations /\ DefaultRetry) =>
    /\ error # UNAVAILABLE
    /\ \A i \in 1..Len(trace) :
         (trace[i] = UNAVAILABLE /\ i = Len(trace)) => pc \in {"sleep", "call"}
    /\ sleeps = Count(trace, {UNAVAILABLE}) - (IF pc = "sleep" THEN 1 ELSE 0)
C11_Witness ==
  /\ op \in Operations /\ DefaultRetry
  /\ trace = <<UNAVAILABLE, UNAVAILABLE, OK>> /\ sleeps = 2
  /\ pc = "idle" /\ outcome = "returned"

\* C12: in a worker method, K failures of status UNKNOWN followed by a
\* success make exactly K+1 call attempts and the success is returned; an
\* UNKNOWN failure never ends the method call, which ends only by
\* returning a validated success or by raising a failure the loop does not
\* retry.
C12_UnknownResent ==
  op \in WorkerOps =>
    /\ (pc = "idle" /\ outcome = "returned"
        /\ \A i \in 1..Len(trace) : trace[i] \in {UNKNOWN, OK}) =>
         /\ attempts = Count(trace, {UNKNOWN}) + 1
         /\ trace[Len(trace)] = OK /\ mismatch = 0
    /\ (Len(trace) >= 1 /\ trace[Len(trace)] = UNKNOWN) =>
         (pc \in {"stub_return", "body", "call"} /\ outcome = "none")
    /\ Ended =>
         \/ outcome = "returned" /\ trace[Len(trace)] = OK /\ mismatch = 0
         \/ outcome = "raised" /\ error \in {UNAUTHENTICATED, "HeaderMismatch"}
C12_Witness ==
  /\ op = "get_tasks" /\ trace = <<UNKNOWN, UNKNOWN, OK>>
  /\ attempts = 3 /\ pc = "idle" /\ outcome = "returned"

\* C13: once the transport has settled, every worker method call that is
\* in progress eventually ends, by returning or by raising.
C13_WorkerTerminates ==
  (op \in WorkerOps /\ pc \in {"body", "call", "sleep", "stub_return"})
    ~> (pc = "idle")

\* C14: reconnect() can be called whatever the state of the current
\* channel, and after it the client holds one newly opened channel, its
\* stub is bound to that channel and every earlier channel is closed.
C14_ReconnectSucceeds ==
  /\ (pc = "idle" /\ nops < MaxOps) => ENABLED Reconnect
  /\ (op = "reconnect") =>
       /\ outcome = "returned"
       /\ client.channel = Len(channels)
       /\ client.stub.channel = client.channel
       /\ channels[client.channel] = NewChannel
       /\ \A c \in 1..(Len(channels) - 1) :
            channels[c].owner = "client" => channels[c].closed
C14_Witness ==
  /\ op = "reconnect" /\ outcome = "returned" /\ Len(channels) = 3
  /\ channels[2].closes = 2

\* C15: with TLS disabled, the insecure-channel warnings logged are as many
\* as the channels opened.
C15_WarningPerOpen ==
  ~client.tls => warns = Len(channels)

\* C16 as stated: no step changes a client field other than channel.
C16_OnlyChannelChanges ==
  [][\A f \in DOMAIN client \ {"channel"} : client'[f] = client[f]]_vars

\* C16 amended: channel, stub and header are the only client fields a step
\* changes; the stub changes only together with the channel and stays
\* bound to it, and the header changes only to the stamped header of the
\* caller of a method call.
C16_OnlyChannelStubHeaderChange ==
  [][/\ \A f \in DOMAIN client \ {"channel", "stub", "header"} :
          client'[f] = client[f]
     /\ client'.stub # client.stub => client'.channel # client.channel
     /\ client'.stub = [channel |-> client'.channel,
                        interceptors |-> client.interceptors]
     /\ client'.header # client.header =>
          client'.header = _set_header(client, caller).header]_vars
C16_Witness ==
  /\ client.header # NoneHeader /\ client.channel = 3 /\ client.stub.channel = 3

\* C17: with two threads on one client and no lock there is an
\* interleaving in which a thread's call goes over a channel that the other
\* thread's reconnect has closed: under the schedule of SpecRace, which
\* SpecConc allows, it always comes about.
C17_ClosedChannelRace ==
  <>(/\ threads["t1"].callChan # 0 /\ ~threads["t1"].callOpen
     /\ "t2" \in closedBy[threads["t1"].callChan]
     /\ "t1" \notin closedBy[threads["t1"].callChan])

\* t1's call was refused by a channel that t1 opened in its own reconnect
\* and only t2 has closed, while t2 is inside its own method call.
C17_Witness ==
  /\ threads["t1"].op \in ConcOps /\ threads["t2"].op \in ConcOps
  /\ threads["t1"].pc = "idle"
  /\ threads["t1"].callChan = 2 /\ ~threads["t1"].callOpen
  /\ closedBy[2] = {"t2"}
  /\ threads["t2"].pc = "r_channel"

\* C18: in a worker method, however many attempts are made, the channel
\* and stub are those opened by the one reconnect on entry, every attempt
\* goes over that channel, it is closed at most once (by the disconnect of
\* a normal return), and the only backoff waits are the interceptor's after
\* UNAVAILABLE failures: a facade-level re-attempt is preceded by none.
C18_OneReconnect ==
  op \in WorkerOps =>
    /\ opChan = Len(channels)
    /\ client.channel = opChan /\ client.stub.channel = opChan
    /\ attempts >= 1 => (callChan = opChan /\ callOpen)
    /\ channels[opChan].closes =
         (IF pc = "idle" /\ outcome = "returned" THEN 1 ELSE 0)
    /\ sleeps = (IF NoInterceptor THEN 0 ELSE Count(trace, {UNAVAILABLE}))
                - (IF pc = "sleep" THEN 1 ELSE 0)
C18_Witness ==
  /\ op = "send_local_task_results"
  /\ trace = <<UNKNOWN, DEADLINE_EXCEEDED, OK>> /\ sleeps = 0
  /\ pc = "idle" /\ outcome = "returned"

\* C19: with status_for_retry None or empty, the interceptor returns only
\* a success: every failure, whatever its status, is followed by one backoff
\* wait and another attempt.
C19_EmptyPolicyRetriesAll ==
  (op = "_intercept_call" /\ (Interceptor.is_none \/ Interceptor.codes = {})) =>
    /\ pc = "stub_return" => response = OK
    /\ (Len(iCodes) >= 1 /\ iCodes[Len(iCodes)] # OK) => pc \in {"sleep", "call"}
    /\ iSleeps = Count(iCodes, FailureCodes) - (IF pc = "sleep" THEN 1 ELSE 0)
    /\ iAttempts = Len(iCodes)
C19_Witness ==
  /\ op = "_intercept_call" /\ (Interceptor.is_none \/ Interceptor.codes = {})
  /\ iCodes = <<UNAUTHENTICATED, UNAVAILABLE, OK>> /\ iSleeps = 2
  /\ pc = "stub_return"

=============================================================================
